---- MODULE Spec2Model ----
(***************************************************************************)
(* OpenMHzPi (src/main.go): the poll -> dedup -> bounded queue -> playback *)
(* pipeline.  Three goroutines are modelled: main (startup, interrupt,     *)
(* grace period), fetchCalls (the Fetcher) and playAudio (the Player).     *)
(* Every channel operation of the source is one atomic step; the code      *)
(* between two channel operations of one goroutine is folded into the      *)
(* step that precedes it only where it touches no shared state.            *)
(***************************************************************************)
EXTENDS Naturals, Sequences, FiniteSets

\* ------------------------------------------------------------- bounds
\* Number of distinct call identities the remote listing can mention.
NumIds == 3
\* Longest listing one fetch cycle returns.
MaxListing == 2

\* Capacity of the queue channel.  The program uses 50; the model keeps the
\* same role with a small value so that the full-queue paths are reached.
MaxQueueSize == 2

Ids == 1 .. NumIds

\* Every listing the call-listing adapter may return: any sequence of
\* identities, repetitions included, up to MaxListing long.
Listings == UNION { [1 .. n -> Ids] : n \in 0 .. MaxListing }

VARIABLES
    mpc,            \* main goroutine: "init", "fatal", "running", "grace", "exited"
    done,           \* the done channel is closed
    queue,          \* buffered contents of the queue channel, head first
    processedCalls, \* keys of the sync.Map
    isFirstRun,     \* fetchCalls' local flag
    fpc,            \* fetchCalls position
    listing,        \* callsResponse.Calls of the current cycle (identities)
    idx,            \* position of the range loop in listing
    ppc,            \* playAudio position
    call,           \* the call playAudio is processing (0: none)
    primed,         \* history: identities stored by the priming pass
    newLog,         \* history: identities for which LoadOrStore reported "new"
    enqLog,         \* history: identities sent on the queue channel, in order
    playLog,        \* history: identities received by playAudio, in order
    evicted,        \* history: identities received (dropped) by fetchCalls
    lastCycle,      \* history: how the fetch cycle just finished ended ("none"
                    \* from the start of the next one)
    wokenByClose,   \* history: close(done) found playAudio parked in its select
    lastPlay,       \* history: how the loop body playAudio just left ended
                    \* ("none" once the select is evaluated again)
    cycleLedger,    \* history: processedCalls when the current listing arrived
    cycleEnq,       \* history: Len(enqLog) when the current listing arrived
    files           \* temporary audio files on disk (the playAudio that
                    \* downloads and converts, src/unnamed/part_001)

vars == << mpc, done, queue, processedCalls, isFirstRun, fpc, listing, idx,
           ppc, call, primed, newLog, enqLog, playLog, evicted, lastCycle,
           wokenByClose, lastPlay, cycleLedger, cycleEnq, files >>

fetcherVars == << isFirstRun, fpc, listing, idx >>
playerVars  == << ppc, call, files >>
history     == << primed, newLog, enqLog, playLog, evicted, lastCycle, wokenByClose,
                 lastPlay, cycleLedger, cycleEnq >>
\* history without lastPlay, for the steps that end a loop body of playAudio.
historyButLastPlay == << primed, newLog, enqLog, playLog, evicted, lastCycle,
                         wokenByClose, cycleLedger, cycleEnq >>

\* The process is running: goroutines take steps only while it is.
Alive == mpc \in {"running", "grace"}

Init ==
    /\ mpc = "init"
    /\ done = FALSE
    /\ queue = << >>
    /\ processedCalls = {}
    /\ isFirstRun = TRUE
    /\ fpc = "none"
    /\ listing = << >>
    /\ idx = 1
    /\ ppc = "none"
    /\ call = 0
    /\ primed = {}
    /\ newLog = << >>
    /\ enqLog = << >>
    /\ playLog = << >>
    /\ evicted = << >>
    /\ lastCycle = "none"
    /\ wokenByClose = FALSE
    /\ lastPlay = "none"
    /\ cycleLedger = {}
    /\ cycleEnq = 0
    /\ files = {}

\* ------------------------------------------------------------- main
\* Faulty variant of StartupFatal: the goroutines are started before the
\* startup checks are made.
StartupFatalAfterGo ==
    /\ mpc = "init"
    /\ mpc' = "fatal"
    /\ fpc' = "wait"
    /\ ppc' = "select"
    /\ UNCHANGED << done, queue, processedCalls, isFirstRun, listing, idx,
                    call, files, history >>

\* isFlareSolverrRunning() is false, or fetchSystems fails: logger.Fatal
\* exits the process before the channels and goroutines are created.
StartupFatal ==
    /\ mpc = "init"
    /\ mpc' = "fatal"
    /\ UNCHANGED << done, queue, processedCalls, fetcherVars, playerVars, history >>

\* make(chan ...), &sync.Map{}, go fetchCalls(...), go playAudio(...).
StartupOk ==
    /\ mpc = "init"
    /\ mpc' = "running"
    /\ fpc' = "wait"
    /\ ppc' = "select"
    /\ UNCHANGED << done, queue, processedCalls, isFirstRun, listing, idx,
                    call, files, history >>

\* Faulty variant of Shutdown: main goes back to wait for another signal
\* and will close done again.
ShutdownAndWaitAgain ==
    /\ mpc = "running"
    /\ mpc' = "running"
    /\ done' = TRUE
    /\ ppc' = IF ppc = "parked" THEN "stopping" ELSE ppc
    /\ wokenByClose' = (ppc = "parked")
    /\ UNCHANGED << queue, processedCalls, fetcherVars, call, files,
                    primed, newLog, enqLog, playLog, evicted, lastCycle,
                    lastPlay, cycleLedger, cycleEnq >>

\* <-c; close(done).  Closing done wakes a playAudio parked in its select
\* with the done case chosen.
Shutdown ==
    /\ mpc = "running"
    /\ mpc' = "grace"
    /\ done' = TRUE
    /\ ppc' = IF ppc = "parked" THEN "stopping" ELSE ppc
    /\ wokenByClose' = (ppc = "parked")
    /\ UNCHANGED << queue, processedCalls, fetcherVars, call, files,
                    primed, newLog, enqLog, playLog, evicted, lastCycle,
                    lastPlay, cycleLedger, cycleEnq >>

\* Faulty variant of GraceElapsed: main waits for both goroutines to return.
GraceElapsedJoins ==
    /\ mpc = "grace"
    /\ fpc = "exited"
    /\ ppc = "exited"
    /\ mpc' = "exited"
    /\ UNCHANGED << done, queue, processedCalls, fetcherVars, playerVars, history >>

\* time.Sleep(2 * time.Second) returns and Run returns: the process ends
\* whatever the two goroutines are doing.
GraceElapsed ==
    /\ mpc = "grace"
    /\ mpc' = "exited"
    /\ UNCHANGED << done, queue, processedCalls, fetcherVars, playerVars, history >>

Main == StartupFatal \/ StartupOk \/ Shutdown \/ GraceElapsed

\* ------------------------------------------------------------- queue channel
\* Faulty variant of QueueCap: the channel is made one slot too large.
QueueCapPlusOne == MaxQueueSize + 1

\* Capacity given to make(chan Call, MaxQueueSize).
QueueCap == MaxQueueSize

\* A send on the queue channel can proceed: the buffer has room, or
\* playAudio is parked in its select and takes the value directly.
CanSend == Len(queue) < QueueCap \/ ppc = "parked"

\* queue <- c as executed by fetchCalls: handed to the parked receiver, or
\* appended to the buffer.
Send(c) ==
    /\ enqLog' = Append(enqLog, c)
    /\ IF ppc = "parked"
       THEN /\ ppc' = "beep"
            /\ call' = c
            /\ playLog' = Append(playLog, c)
            /\ lastPlay' = "none"
            /\ queue' = queue
       ELSE /\ queue' = Append(queue, c)
            /\ UNCHANGED << ppc, call, playLog, lastPlay >>

\* ------------------------------------------------------------- ledger
\* Faulty variant of Store: the key is not written.
StoreNothing(m, id) == m

\* processedCalls.Store(id, true).
Store(m, id) == m \cup {id}

\* Faulty variant of Loaded: the result of LoadOrStore is taken as "not
\* loaded" whatever the map holds.
LoadedNever(m, id) == FALSE

\* The "loaded" result of processedCalls.LoadOrStore(id, true): the key was
\* already present.  The map afterwards is Store(m, id) either way.
Loaded(m, id) == id \in m

\* ------------------------------------------------------------- fetchCalls
\* select { case <-done: return }.
FetcherStop ==
    /\ Alive
    /\ fpc = "wait"
    /\ done
    /\ fpc' = "exited"
    /\ UNCHANGED << mpc, done, queue, processedCalls, isFirstRun, listing, idx,
                    playerVars, history >>

\* select { case <-time.After(FetchInterval): ... }.  The timer is created
\* when the select is evaluated, so it wins only while done is still open.
FetcherTick ==
    /\ Alive
    /\ fpc = "wait"
    /\ ~done
    /\ fpc' = "fetch"
    /\ lastCycle' = "none"
    /\ UNCHANGED << mpc, done, queue, processedCalls, isFirstRun, listing, idx,
                    playerVars, primed, newLog, enqLog, playLog, evicted,
                    wokenByClose, lastPlay, cycleLedger,
                    cycleEnq >>

\* Faulty variant of FetchError: return instead of continue.
FetchErrorReturns ==
    /\ Alive
    /\ fpc = "fetch"
    /\ fpc' = "exited"
    /\ lastCycle' = "failed"
    /\ UNCHANGED << mpc, done, queue, processedCalls, isFirstRun, listing, idx,
                    playerVars, primed, newLog, enqLog, playLog, evicted,
                    wokenByClose, lastPlay, cycleLedger,
                    cycleEnq >>

\* fetchJSON returns an error: log, continue.
FetchError ==
    /\ Alive
    /\ fpc = "fetch"
    /\ fpc' = "wait"
    /\ lastCycle' = "failed"
    /\ UNCHANGED << mpc, done, queue, processedCalls, isFirstRun, listing, idx,
                    playerVars, primed, newLog, enqLog, playLog, evicted,
                    wokenByClose, lastPlay, cycleLedger,
                    cycleEnq >>

\* Faulty variant of ParseError: the failed cycle counts as the first run.
ParseErrorEndsPriming ==
    /\ Alive
    /\ fpc = "fetch"
    /\ fpc' = "wait"
    /\ lastCycle' = "failed"
    /\ isFirstRun' = FALSE
    /\ UNCHANGED << mpc, done, queue, processedCalls, listing, idx,
                    playerVars, primed, newLog, enqLog, playLog, evicted,
                    wokenByClose, lastPlay, cycleLedger,
                    cycleEnq >>

\* json.Unmarshal returns an error: log, continue.
ParseError ==
    /\ Alive
    /\ fpc = "fetch"
    /\ fpc' = "wait"
    /\ lastCycle' = "failed"
    /\ UNCHANGED << mpc, done, queue, processedCalls, isFirstRun, listing, idx,
                    playerVars, primed, newLog, enqLog, playLog, evicted,
                    wokenByClose, lastPlay, cycleLedger,
                    cycleEnq >>

\* fetchJSON and json.Unmarshal succeed with listing l; the range loop starts.
FetchOk ==
    /\ Alive
    /\ fpc = "fetch"
    /\ \E l \in Listings : listing' = l
    /\ idx' = 1
    /\ fpc' = "range"
    /\ cycleLedger' = processedCalls
    /\ cycleEnq' = Len(enqLog)
    /\ UNCHANGED << mpc, done, queue, processedCalls, isFirstRun,
                    playerVars, primed, newLog, enqLog, playLog, evicted,
                    lastCycle, wokenByClose, lastPlay >>

\* Faulty variant of RangePrime: the priming pass skips the call without
\* storing its identity.
RangePrimeNoStore ==
    /\ Alive
    /\ fpc = "range"
    /\ idx <= Len(listing)
    /\ isFirstRun
    /\ primed' = primed \cup {listing[idx]}
    /\ idx' = idx + 1
    /\ UNCHANGED << mpc, done, queue, processedCalls, isFirstRun, fpc, listing,
                    playerVars, newLog, enqLog, playLog, evicted, lastCycle,
                    wokenByClose, lastPlay, cycleLedger,
                    cycleEnq >>

\* Loop body while isFirstRun: Store and continue.
RangePrime ==
    /\ Alive
    /\ fpc = "range"
    /\ idx <= Len(listing)
    /\ isFirstRun
    /\ processedCalls' = Store(processedCalls, listing[idx])
    /\ primed' = primed \cup {listing[idx]}
    /\ idx' = idx + 1
    /\ UNCHANGED << mpc, done, queue, isFirstRun, fpc, listing, playerVars,
                    newLog, enqLog, playLog, evicted, lastCycle, wokenByClose, lastPlay, cycleLedger,
                    cycleEnq >>

\* Loop body in steady state, LoadOrStore reports the key present: the
\* else branch logs and the loop goes on.
RangeSeen ==
    /\ Alive
    /\ fpc = "range"
    /\ idx <= Len(listing)
    /\ ~isFirstRun
    /\ Loaded(processedCalls, listing[idx])
    /\ processedCalls' = Store(processedCalls, listing[idx])
    /\ idx' = idx + 1
    /\ UNCHANGED << mpc, done, queue, isFirstRun, fpc, listing, playerVars,
                    history >>

\* Faulty variant of RangeNew: the new key is stored and the loop goes on
\* without sending the call.
RangeNewMarksOnly ==
    /\ Alive
    /\ fpc = "range"
    /\ idx <= Len(listing)
    /\ ~isFirstRun
    /\ ~Loaded(processedCalls, listing[idx])
    /\ processedCalls' = Store(processedCalls, listing[idx])
    /\ newLog' = Append(newLog, listing[idx])
    /\ idx' = idx + 1
    /\ UNCHANGED << mpc, done, queue, isFirstRun, fpc, listing, playerVars,
                    primed, enqLog, playLog, evicted, lastCycle, wokenByClose,
                    lastPlay, cycleLedger, cycleEnq >>

\* Loop body in steady state, LoadOrStore stored the key: go to the send.
RangeNew ==
    /\ Alive
    /\ fpc = "range"
    /\ idx <= Len(listing)
    /\ ~isFirstRun
    /\ ~Loaded(processedCalls, listing[idx])
    /\ processedCalls' = Store(processedCalls, listing[idx])
    /\ newLog' = Append(newLog, listing[idx])
    /\ fpc' = "send"
    /\ UNCHANGED << mpc, done, queue, isFirstRun, listing, idx, playerVars,
                    primed, enqLog, playLog, evicted, lastCycle, wokenByClose, lastPlay, cycleLedger,
                    cycleEnq >>

\* Faulty variant of RangeEnd: the mode is inferred from the ledger, which
\* is still empty after a priming pass over an empty listing.
RangeEndInfersFromLedger ==
    /\ Alive
    /\ fpc = "range"
    /\ idx > Len(listing)
    /\ isFirstRun' = (processedCalls = {})
    /\ fpc' = "wait"
    /\ listing' = << >>
    /\ idx' = 1
    /\ lastCycle' = "ok"
    /\ cycleLedger' = {}
    /\ cycleEnq' = 0
    /\ UNCHANGED << mpc, done, queue, processedCalls, playerVars,
                    primed, newLog, enqLog, playLog, evicted, wokenByClose,
                    lastPlay >>

\* The range loop is over: if isFirstRun { isFirstRun = false }.  The
\* iteration of the outer for ends and callsResponse goes out of scope.
RangeEnd ==
    /\ Alive
    /\ fpc = "range"
    /\ idx > Len(listing)
    /\ isFirstRun' = FALSE
    /\ fpc' = "wait"
    /\ listing' = << >>
    /\ idx' = 1
    /\ lastCycle' = "ok"
    /\ cycleLedger' = {}
    /\ cycleEnq' = 0
    /\ UNCHANGED << mpc, done, queue, processedCalls, playerVars,
                    primed, newLog, enqLog, playLog, evicted, wokenByClose,
                    lastPlay >>

\* select { case queue <- call: ... } with the send ready.
TrySendOk ==
    /\ Alive
    /\ fpc = "send"
    /\ CanSend
    /\ Send(listing[idx])
    /\ idx' = idx + 1
    /\ fpc' = "range"
    /\ UNCHANGED << mpc, done, processedCalls, isFirstRun, listing, files,
                    primed, newLog, evicted, lastCycle, wokenByClose,
                    cycleLedger, cycleEnq >>

\* select { ... default: } taken because the send was not ready; the
\* warning is logged and the goroutine stands before <-queue.
TrySendFull ==
    /\ Alive
    /\ fpc = "send"
    /\ ~CanSend
    /\ fpc' = "evict"
    /\ UNCHANGED << mpc, done, queue, processedCalls, isFirstRun, listing, idx,
                    playerVars, history >>

\* Faulty variant of EvictOldest: the newest pending call is dropped.
EvictNewest ==
    /\ Alive
    /\ fpc = "evict"
    /\ queue # << >>
    /\ queue' = SubSeq(queue, 1, Len(queue) - 1)
    /\ evicted' = Append(evicted, queue[Len(queue)])
    /\ fpc' = "insert"
    /\ UNCHANGED << mpc, done, processedCalls, isFirstRun, listing, idx,
                    playerVars, primed, newLog, enqLog, playLog, lastCycle,
                    wokenByClose, lastPlay, cycleLedger,
                    cycleEnq >>

\* Faulty variant of EvictOldest: the identity of the dropped call is
\* deleted from the ledger as well.
EvictOldestForgets ==
    /\ Alive
    /\ fpc = "evict"
    /\ queue # << >>
    /\ queue' = Tail(queue)
    /\ evicted' = Append(evicted, Head(queue))
    /\ processedCalls' = processedCalls \ {Head(queue)}
    /\ fpc' = "insert"
    /\ UNCHANGED << mpc, done, isFirstRun, listing, idx,
                    playerVars, primed, newLog, enqLog, playLog, lastCycle,
                    wokenByClose, lastPlay, cycleLedger,
                    cycleEnq >>

\* <-queue in the default branch: a plain receive, which waits while the
\* buffer is empty.
EvictOldest ==
    /\ Alive
    /\ fpc = "evict"
    /\ queue # << >>
    /\ queue' = Tail(queue)
    /\ evicted' = Append(evicted, Head(queue))
    /\ fpc' = "insert"
    /\ UNCHANGED << mpc, done, processedCalls, isFirstRun, listing, idx,
                    playerVars, primed, newLog, enqLog, playLog, lastCycle,
                    wokenByClose, lastPlay, cycleLedger,
                    cycleEnq >>

\* queue <- call in the default branch: a plain send, which waits while the
\* buffer is full.
InsertNew ==
    /\ Alive
    /\ fpc = "insert"
    /\ CanSend
    /\ Send(listing[idx])
    /\ idx' = idx + 1
    /\ fpc' = "range"
    /\ UNCHANGED << mpc, done, processedCalls, isFirstRun, listing, files,
                    primed, newLog, evicted, lastCycle, wokenByClose,
                    cycleLedger, cycleEnq >>

\* The identity fetchCalls has stored as new and is in the course of
\* sending: between LoadOrStore and the end of the select that sends it.
InFlightNew == IF fpc \in {"send", "evict", "insert"} THEN {listing[idx]} ELSE {}

Fetcher ==
    \/ FetcherStop \/ FetcherTick \/ FetchError \/ ParseError \/ FetchOk
    \/ RangePrime \/ RangeSeen \/ RangeNew \/ RangeEnd
    \/ TrySendOk \/ TrySendFull \/ EvictOldest \/ InsertNew

\* ------------------------------------------------------------- playAudio
\* Faulty variant of PlayerReceive: the newest pending call is taken.
PlayerReceiveLast ==
    /\ Alive
    /\ ppc = "select"
    /\ queue # << >>
    /\ call' = queue[Len(queue)]
    /\ queue' = SubSeq(queue, 1, Len(queue) - 1)
    /\ playLog' = Append(playLog, queue[Len(queue)])
    /\ ppc' = "beep"
    /\ lastPlay' = "none"
    /\ UNCHANGED << mpc, done, processedCalls, fetcherVars, files,
                    primed, newLog, enqLog, evicted, lastCycle, wokenByClose,
                    cycleLedger, cycleEnq >>

\* Faulty variant of PlayerReceive: the call is read and left in the
\* buffer.
PlayerReceivePeeks ==
    /\ Alive
    /\ ppc = "select"
    /\ queue # << >>
    /\ call' = Head(queue)
    /\ queue' = queue
    /\ playLog' = Append(playLog, Head(queue))
    /\ ppc' = "beep"
    /\ lastPlay' = "none"
    /\ UNCHANGED << mpc, done, processedCalls, fetcherVars, files,
                    primed, newLog, enqLog, evicted, lastCycle, wokenByClose,
                    cycleLedger, cycleEnq >>

\* The select is evaluated with a call buffered: case call := <-queue.
\* When done is closed as well, Go picks either ready case.
PlayerReceive ==
    /\ Alive
    /\ ppc = "select"
    /\ queue # << >>
    /\ call' = Head(queue)
    /\ queue' = Tail(queue)
    /\ playLog' = Append(playLog, Head(queue))
    /\ ppc' = "beep"
    /\ lastPlay' = "none"
    /\ UNCHANGED << mpc, done, processedCalls, fetcherVars, files,
                    primed, newLog, enqLog, evicted, lastCycle, wokenByClose,
                    cycleLedger, cycleEnq >>

\* The select is evaluated with done closed: case <-done.
PlayerSeeDone ==
    /\ Alive
    /\ ppc = "select"
    /\ done
    /\ ppc' = "stopping"
    /\ lastPlay' = "none"
    /\ UNCHANGED << mpc, done, queue, processedCalls, fetcherVars, call, files,
                    historyButLastPlay >>

\* The select is evaluated with no case ready: the goroutine parks on both
\* channels.
PlayerPark ==
    /\ Alive
    /\ ppc = "select"
    /\ queue = << >>
    /\ ~done
    /\ ppc' = "parked"
    /\ lastPlay' = "none"
    /\ UNCHANGED << mpc, done, queue, processedCalls, fetcherVars, call, files,
                    historyButLastPlay >>

\* Faulty variant of PlayerReturn: the done case logs and the loop goes on.
PlayerReturnContinues ==
    /\ Alive
    /\ ppc = "stopping"
    /\ ppc' = "select"
    /\ call' = 0
    /\ UNCHANGED << mpc, done, queue, processedCalls, fetcherVars, files, history >>

\* logger.Info("Stopping audio player."); return.
PlayerReturn ==
    /\ Alive
    /\ ppc = "stopping"
    /\ ppc' = "exited"
    /\ call' = 0
    /\ UNCHANGED << mpc, done, queue, processedCalls, fetcherVars, files, history >>

\* playRogerBeep() fails: log, continue.
BeepError ==
    /\ Alive
    /\ ppc = "beep"
    /\ ppc' = "select"
    /\ call' = 0
    /\ lastPlay' = "failed"
    /\ UNCHANGED << mpc, done, queue, processedCalls, fetcherVars, files,
                    historyButLastPlay >>

\* Faulty variant of BeepOk: the call is played in the background (as with
\* "go playFile(...)") and the loop goes back to its select at once.
BeepOkDetached ==
    /\ Alive
    /\ ppc = "beep"
    /\ ppc' = "select"
    /\ UNCHANGED << mpc, done, queue, processedCalls, fetcherVars, call, files,
                    history >>

\* playRogerBeep() succeeds: on to playFile.
BeepOk ==
    /\ Alive
    /\ ppc = "beep"
    /\ ppc' = "play"
    /\ UNCHANGED << mpc, done, queue, processedCalls, fetcherVars, call, files,
                    history >>

\* Faulty variant of PlayError: return instead of continue.
PlayErrorReturns ==
    /\ Alive
    /\ ppc = "play"
    /\ ppc' = "exited"
    /\ call' = 0
    /\ lastPlay' = "failed"
    /\ UNCHANGED << mpc, done, queue, processedCalls, fetcherVars, files,
                    historyButLastPlay >>

\* playFile(call.URL) fails: log, continue.
PlayError ==
    /\ Alive
    /\ ppc = "play"
    /\ ppc' = "select"
    /\ call' = 0
    /\ lastPlay' = "failed"
    /\ UNCHANGED << mpc, done, queue, processedCalls, fetcherVars, files,
                    historyButLastPlay >>

\* playFile(call.URL) succeeds: the loop body ends.
PlayOk ==
    /\ Alive
    /\ ppc = "play"
    /\ ppc' = "select"
    /\ call' = 0
    /\ lastPlay' = "ok"
    /\ UNCHANGED << mpc, done, queue, processedCalls, fetcherVars, files,
                    historyButLastPlay >>

Player ==
    \/ PlayerReceive \/ PlayerSeeDone \/ PlayerPark \/ PlayerReturn
    \/ BeepError \/ BeepOk \/ PlayError \/ PlayOk

\* ------------------------------------------------------------- specifications
Next == Main \/ Fetcher \/ Player

Spec == Init /\ [][Next]_vars

\* Both goroutines are scheduled whenever they can run; every external
\* call they make (HTTP request, ffplay) returns.  Nothing is assumed of
\* main: the interrupt may never come, and the grace period is not raced
\* against the goroutines.
FairSpec == Spec /\ WF_vars(Fetcher) /\ WF_vars(Player)

\* The sleep of the grace period returns; nothing is assumed of the two
\* goroutines.
GraceSpec == Spec /\ WF_vars(GraceElapsed)

\* ---------------------------------------------------------------------
\* playAudio with temporary files (src/unnamed/part_001, lines 239-280)
\*
\* This playAudio has the same select as the one above; the body of its
\* queue case downloads the call to filePath, converts it to mp3FilePath,
\* probes and plays the MP3, and removes both files.  A file is modelled
\* as << id, kind >>: the paths are derived from the call's file name.
\* Position "beep" is the first statement of the case body in both
\* versions (here: downloadFile).
\* ---------------------------------------------------------------------

origFile(c) == << c, "orig" >>
mp3File(c)  == << c, "mp3" >>

\* downloadFile fails: log, continue.  http.Get or os.Create failed (no
\* file), or io.Copy failed after os.Create (the file is there).
DownloadError ==
    /\ Alive
    /\ ppc = "beep"
    /\ \E created \in BOOLEAN :
          files' = IF created THEN files \cup {origFile(call)} ELSE files
    /\ ppc' = "select"
    /\ call' = 0
    /\ lastPlay' = "failed"
    /\ UNCHANGED << mpc, done, queue, processedCalls, fetcherVars,
                    historyButLastPlay >>

\* downloadFile succeeds: filePath is on disk.
DownloadOk ==
    /\ Alive
    /\ ppc = "beep"
    /\ files' = files \cup {origFile(call)}
    /\ ppc' = "convert"
    /\ UNCHANGED << mpc, done, queue, processedCalls, fetcherVars, call,
                    history >>

\* convertToMP3 fails: log, continue.  ffmpeg may have begun its output.
ConvertError ==
    /\ Alive
    /\ ppc = "convert"
    /\ \E created \in BOOLEAN :
          files' = IF created THEN files \cup {mp3File(call)} ELSE files
    /\ ppc' = "select"
    /\ call' = 0
    /\ lastPlay' = "failed"
    /\ UNCHANGED << mpc, done, queue, processedCalls, fetcherVars,
                    historyButLastPlay >>

\* convertToMP3 succeeds: mp3FilePath is on disk.
ConvertOk ==
    /\ Alive
    /\ ppc = "convert"
    /\ files' = files \cup {mp3File(call)}
    /\ ppc' = "probe"
    /\ UNCHANGED << mpc, done, queue, processedCalls, fetcherVars, call,
                    history >>

\* getTrackLength fails: log, continue.
ProbeError ==
    /\ Alive
    /\ ppc = "probe"
    /\ ppc' = "select"
    /\ call' = 0
    /\ lastPlay' = "failed"
    /\ UNCHANGED << mpc, done, queue, processedCalls, fetcherVars, files,
                    historyButLastPlay >>

\* getTrackLength succeeds.
ProbeOk ==
    /\ Alive
    /\ ppc = "probe"
    /\ ppc' = "playfile"
    /\ UNCHANGED << mpc, done, queue, processedCalls, fetcherVars, call, files,
                    history >>

\* playFile(mp3FilePath) fails: log, continue.
PlayFileError ==
    /\ Alive
    /\ ppc = "playfile"
    /\ ppc' = "select"
    /\ call' = 0
    /\ lastPlay' = "failed"
    /\ UNCHANGED << mpc, done, queue, processedCalls, fetcherVars, files,
                    historyButLastPlay >>

\* playFile(mp3FilePath) succeeds.
PlayFileOk ==
    /\ Alive
    /\ ppc = "playfile"
    /\ ppc' = "remove"
    /\ UNCHANGED << mpc, done, queue, processedCalls, fetcherVars, call, files,
                    history >>

\* os.Remove(filePath); os.Remove(mp3FilePath); the loop body ends.
RemoveFiles ==
    /\ Alive
    /\ ppc = "remove"
    /\ files' = files \ {origFile(call), mp3File(call)}
    /\ ppc' = "select"
    /\ call' = 0
    /\ lastPlay' = "ok"
    /\ UNCHANGED << mpc, done, queue, processedCalls, fetcherVars,
                    historyButLastPlay >>

FilePlayer ==
    \/ PlayerReceive \/ PlayerSeeDone \/ PlayerPark \/ PlayerReturn
    \/ DownloadError \/ DownloadOk \/ ConvertError \/ ConvertOk
    \/ ProbeError \/ ProbeOk \/ PlayFileError \/ PlayFileOk \/ RemoveFiles

FilesNext == Main \/ Fetcher \/ FilePlayer

FilesSpec == Init /\ [][FilesNext]_vars

\* ------------------------------------------------------------- helpers for the properties
Elems(s) == { s[i] : i \in 1 .. Len(s) }

NoDup(s) == \A i, j \in 1 .. Len(s) : i # j => s[i] # s[j]

\* s without the elements of the set X, order kept.
RECURSIVE Without(_, _)
Without(s, X) ==
    IF s = << >> THEN << >>
    ELSE IF Head(s) \in X THEN Without(Tail(s), X)
    ELSE << Head(s) >> \o Without(Tail(s), X)

\* The elements of s that are not in L, each at its first occurrence only.
RECURSIVE FirstNew(_, _)
FirstNew(s, L) ==
    IF s = << >> THEN << >>
    ELSE IF Head(s) \in L THEN FirstNew(Tail(s), L)
    ELSE << Head(s) >> \o FirstNew(Tail(s), L \cup {Head(s)})

\* fetchCalls stands at the wait point or between two calls of a listing:
\* no enqueue is half done.
FetcherBetweenCalls == fpc \in {"wait", "fetch", "range", "exited"}

\* ------------------------------------------------------------- C1
\* C1: an identity that was present in the priming listing is never sent
\* on the queue, in the priming cycle or in any later cycle.
C1_PrimedNeverEnqueued == \A i \in 1 .. Len(enqLog) : enqLog[i] \notin primed

\* A steady-state cycle has gone through a listing that names a primed
\* identity, and has enqueued another call.
C1_Witness ==
    /\ ~isFirstRun
    /\ fpc = "range"
    /\ idx > Len(listing)
    /\ \E i \in 1 .. Len(listing) : listing[i] \in primed
    /\ \E i \in 1 .. Len(listing) : listing[i] \in Elems(enqLog)

\* ------------------------------------------------------------- C2
\* C2: LoadOrStore reports "newly stored" at most once per identity, and an
\* identity is sent on the queue at most once in the whole run, whether it
\* is repeated inside one listing or comes back in a later cycle, after it
\* was played or evicted.
C2_EnqueuedAtMostOnce == NoDup(newLog) /\ NoDup(enqLog)

\* A listing that names twice an identity already evicted has been gone
\* through, while another identity has been played.
C2_Witness ==
    /\ fpc = "range"
    /\ idx > Len(listing)
    /\ Len(listing) = 2
    /\ listing[1] = listing[2]
    /\ listing[1] \in Elems(evicted)
    /\ playLog # << >>

\* ------------------------------------------------------------- C3
\* C3: the number of calls pending in the queue never exceeds MaxQueueSize.
C3_QueueBounded == Len(queue) <= MaxQueueSize

\* The queue is full again after an eviction made room for a new call.
C3_Witness == Len(queue) = MaxQueueSize /\ evicted # << >> /\ fpc = "range"

\* ------------------------------------------------------------- C4
\* C4: on the full-queue path fetchCalls removes exactly one pending call,
\* the head, and then places the new call behind every pending call (at
\* the tail of the buffer, or straight into the hands of a playAudio parked
\* on the empty queue).  With no dequeue by playAudio so far, the queue
\* holds the last MaxQueueSize enqueued calls in order and the earlier ones
\* are the evicted ones: capacity 2 and enqueues A, B, C leave [B, C], A
\* evicted and not played.
C4_DropOldest ==
    /\ [][ (fpc = "evict" /\ fpc' = "insert") =>
              /\ queue # << >>
              /\ queue' = Tail(queue)
              /\ evicted' = Append(evicted, Head(queue))
              /\ playLog' = playLog ]_vars
    /\ [][ (fpc = "insert" /\ fpc' = "range") =>
              /\ evicted' = evicted
              /\ enqLog' = Append(enqLog, listing[idx])
              /\ \/ queue' = Append(queue, listing[idx]) /\ playLog' = playLog
                 \/ /\ ppc = "parked" /\ queue = << >> /\ queue' = << >>
                    /\ playLog' = Append(playLog, listing[idx]) ]_vars
    /\ [](  (playLog = << >> /\ FetcherBetweenCalls /\ Len(enqLog) > MaxQueueSize) =>
              /\ queue = SubSeq(enqLog, Len(enqLog) - MaxQueueSize + 1, Len(enqLog))
              /\ evicted = SubSeq(enqLog, 1, Len(enqLog) - MaxQueueSize) )

\* Three calls were enqueued with no dequeue in between: the queue holds the
\* second and the third, the first was evicted.
C4_Witness ==
    /\ FetcherBetweenCalls
    /\ Len(enqLog) = MaxQueueSize + 1
    /\ playLog = << >>
    /\ queue = Tail(enqLog)
    /\ evicted = << Head(enqLog) >>

\* ------------------------------------------------------------- C5
\* C5: playAudio receives the calls that are not evicted in the order in
\* which fetchCalls sent them: the calls sent and not evicted are, in send
\* order, the calls already received followed by the calls still pending.
C5_Fifo == Without(enqLog, Elems(evicted)) = playLog \o queue

\* Two calls have been played after an earlier one was evicted.
C5_Witness == Len(playLog) >= 2 /\ evicted # << >>

\* ------------------------------------------------------------- C6
\* C6: fetchCalls never waits on the queue channel: whenever it stands
\* before the receive or the send of the full-queue path, that operation
\* can proceed at once.
C6_FetcherNeverWaitsOnQueue ==
    Alive => /\ (fpc = "evict" => queue # << >>)
             /\ (fpc = "insert" => CanSend)

\* ------------------------------------------------------------- C7
\* C7: when done is closed while playAudio is parked in its select on the
\* empty queue, playAudio receives no further call and its loop exits
\* (unless the process ends first).
C7_ParkedPlayerExits ==
    /\ [][ wokenByClose => playLog' = playLog ]_vars
    /\ (wokenByClose ~> (ppc = "exited" \/ mpc = "exited"))

\* playAudio was parked when done was closed and has returned, leaving
\* behind a call that fetchCalls enqueued afterwards.
C7_Witness == wokenByClose /\ ppc = "exited" /\ mpc = "grace" /\ queue # << >>

\* ------------------------------------------------------------- C8
\* C8: once done is closed playAudio receives no call from the queue:
\* what is pending at shutdown is never played.
C8_NoReceiveAfterShutdown == [][ done => playLog' = playLog ]_vars

C10_FailedCycleSkipped ==
    /\ [][ (fpc = "fetch" /\ fpc' \notin {"fetch", "range"}) =>
              /\ fpc' = "wait"
              /\ queue' = queue
              /\ enqLog' = enqLog
              /\ processedCalls' = processedCalls ]_vars
    /\ ((lastCycle = "failed" /\ fpc = "wait") ~> (fpc = "fetch" \/ done))

\* A steady-state cycle has just failed, with calls pending and a ledger
\* that the failure could have disturbed.
C10_Witness ==
    /\ lastCycle = "failed"
    /\ fpc = "wait"
    /\ ~isFirstRun
    /\ queue # << >>
    /\ processedCalls # {}

\* ------------------------------------------------------------- C11
\* C11: when a stage of the processing of a call fails (playRogerBeep or
\* playFile returns an error) the call is dropped and playAudio is back at
\* its select, from where it takes the next queued call; playAudio leaves
\* its loop only with done closed.
C11_PlaybackErrorSkipsCall ==
    /\ [][ (lastPlay # "failed" /\ lastPlay' = "failed") =>
              /\ ppc' = "select"
              /\ call' = 0
              /\ queue' = queue ]_vars
    /\ [][ (ppc' \in {"stopping", "exited"}) => done' ]_vars
    /\ ((lastPlay = "failed" /\ queue # << >>) ~>
            (ppc = "beep" \/ done \/ queue = << >>))

\* A call has just failed and the next one is waiting in the queue.
C11_Witness ==
    /\ lastPlay = "failed"
    /\ ppc = "select"
    /\ queue # << >>
    /\ ~done

\* ------------------------------------------------------------- C12
\* C12: done is open until the interrupt, is closed by one step only (main
\* leaving its wait for the signal), can never be closed a second time and
\* once closed stays closed.
C12_SignalSetOnce ==
    /\ [](done <=> mpc \in {"grace", "exited"})
    /\ [][ done => done' ]_vars
    /\ [][ (~done /\ done') => (mpc = "running" /\ mpc' = "grace") ]_vars
    /\ [](done => ~ENABLED Shutdown)

\* done is closed and both goroutines have seen it.
C12_Witness == done /\ fpc = "exited" /\ ppc = "exited"

\* ------------------------------------------------------------- C13
\* C13: after the interrupt the process exits when the grace period is
\* over, whatever the two goroutines are doing.
C13_ProcessExitsAfterGrace ==
    /\ [](mpc = "grace" => ENABLED GraceElapsed)
    /\ (done ~> mpc = "exited")

\* The process has exited with a playback in progress and fetchCalls in
\* the middle of an enqueue.
C13_Witness ==
    /\ mpc = "exited"
    /\ ppc \in {"beep", "play"}
    /\ fpc \in {"send", "evict", "insert"}

\* ------------------------------------------------------------- C14
\* C14: on a fatal startup error the process is over before either
\* goroutine exists: no fetch cycle runs, nothing is marked, enqueued or
\* played, and nothing happens afterwards.
C14_FatalStartsNothing ==
    /\ [](mpc = "fatal" =>
              /\ fpc = "none"
              /\ ppc = "none"
              /\ ~done
              /\ processedCalls = {}
              /\ enqLog = << >>
              /\ playLog = << >>)
    /\ [][ mpc = "fatal" => mpc' = "fatal" ]_vars
    /\ [](mpc = "fatal" => ~ENABLED Next)

\* The startup failed.
C14_Witness == mpc = "fatal"

\* ------------------------------------------------------------- C15
\* C15 as stated: in every state the ledger holds exactly the identities
\* seen by the priming pass and the identities sent on the queue.
C15_LedgerIffPrimedOrEnqueued == processedCalls = primed \cup Elems(enqLog)

\* C15 amended: in every state the ledger holds exactly the identities seen
\* by the priming pass, the identities sent on the queue, and the identity
\* that fetchCalls has just stored as new and is in the course of sending.
C15_LedgerIffPrimedEnqueuedOrInFlight ==
    processedCalls = primed \cup Elems(enqLog) \cup InFlightNew

\* fetchCalls stands before its send with an identity that is in the
\* ledger, was not primed and is not enqueued, next to a primed and an
\* enqueued one.
C15_Witness ==
    /\ fpc = "send"
    /\ listing[idx] \in processedCalls
    /\ listing[idx] \notin primed \cup Elems(enqLog)
    /\ primed # {}
    /\ enqLog # << >>

\* ------------------------------------------------------------- C16
\* C16: while fetchCalls is between its fullness check and the end of its
\* insertion (before <-queue or before queue <- call), playAudio takes
\* no call from the queue.
C16_FullInsertAtomic ==
    [][ (fpc \in {"evict", "insert"} /\ fpc' = fpc) => playLog' = playLog ]_vars

\* ------------------------------------------------------------- C17
\* C17: fetchCalls discards a pending call only when the queue is full at
\* the moment of the removal.
C17_EvictOnlyWhenFull ==
    [][ evicted' # evicted => Len(queue) = MaxQueueSize ]_vars

\* ------------------------------------------------------------- C18
\* C18: at every point of the range loop of a steady-state cycle, the calls
\* sent on the queue since the listing arrived are exactly the calls of the
\* part of the listing gone through whose identity was not in the ledger
\* when the listing arrived, in listing order, each once; the ledger is
\* the ledger of then plus that part of the listing; a call whose
\* identity is already in the ledger changes neither queue nor ledger.
\* At the end of the loop this is the whole listing: priming [X] and then
\* [X, Z] enqueues exactly Z.
C18_CycleEnqueuesNewCalls ==
    /\ []( (fpc = "range" /\ ~isFirstRun) =>
              /\ SubSeq(enqLog, cycleEnq + 1, Len(enqLog))
                    = FirstNew(SubSeq(listing, 1, idx - 1), cycleLedger)
              /\ processedCalls
                    = cycleLedger \cup Elems(SubSeq(listing, 1, idx - 1)) )
    /\ [][ (~isFirstRun /\ fpc = "range" /\ fpc' = "range" /\ idx' = idx + 1) =>
              /\ listing[idx] \in processedCalls
              /\ processedCalls' = processedCalls
              /\ queue' = queue
              /\ enqLog' = enqLog ]_vars

\* A steady-state cycle has gone through a listing [X, Z], X primed and Z
\* new, and has enqueued exactly Z.
C18_Witness ==
    /\ ~isFirstRun
    /\ fpc = "range"
    /\ Len(listing) = 2
    /\ idx = 3
    /\ listing[1] \in primed
    /\ listing[2] \notin cycleLedger
    /\ SubSeq(enqLog, cycleEnq + 1, Len(enqLog)) = << listing[2] >>

\* C19: at most one call is in flight in the Player: a call is held exactly
\* while the loop body runs, and the Player takes a call (from the queue or
\* by hand-off) only at its select with no call held, so the processing of
\* the previous one has finished, with or without an error.
C19_OneCallInFlight ==
    /\ []( call # 0 <=> ppc \in {"beep", "play"} )
    /\ [][ playLog' # playLog =>
              /\ call = 0
              /\ ppc \in {"select", "parked"}
              /\ playLog' = Append(playLog, call')
              /\ ppc' = "beep" ]_vars

\* A second call is being played while another one waits in the queue.
C19_Witness ==
    /\ ppc = "play"
    /\ Len(playLog) >= 2
    /\ call = playLog[Len(playLog)]
    /\ queue # << >>

\* C20: when the Player holds no call, no temporary file is on disk: the
\* files of a call are removed on every path that ends its processing.
C20_TempFilesReleased == call = 0 => files = {}

\* C21: the mode flag changes only from priming to steady state, and it
\* does so whenever a priming pass leaves the range loop, whatever the
\* listing and the ledger hold (an empty listing included); nothing is
\* enqueued while the flag says priming, and steady state is never left.
C21_ModeFlagOnly ==
    /\ []( isFirstRun => enqLog = << >> )
    /\ [][ (isFirstRun /\ fpc = "range" /\ fpc' # "range") =>
              (~isFirstRun' /\ enqLog' = << >> /\ queue' = << >>) ]_vars
    /\ [][ ~isFirstRun => ~isFirstRun' ]_vars

\* The priming pass went over an empty listing: the Fetcher is in steady
\* state with an empty ledger, and nothing was enqueued.
C21_Witness ==
    /\ ~isFirstRun
    /\ lastCycle = "ok"
    /\ processedCalls = {}
    /\ enqLog = << >>

\* C22: the ledger only grows: no step removes an identity from it, so an
\* identity once in the ledger stays there, also after its call was played
\* or evicted.
C22_LedgerOnlyGrows ==
    [][ processedCalls \subseteq processedCalls' ]_vars

\* One call was played and another evicted; both identities are in the
\* ledger and neither call is in the queue any more.
C22_Witness ==
    /\ playLog # << >>
    /\ evicted # << >>
    /\ Elems(playLog) \cup Elems(evicted) \subseteq processedCalls
    /\ (Elems(playLog) \cup Elems(evicted)) \cap Elems(queue) = {}
    /\ call = 0

\* C23: a cycle that fails in priming mode (the Fetcher goes from its
\* request straight back to waiting) leaves the mode and the ledger as they
\* were; priming ends only at the end of a range loop that has stored
\* every identity of a fetched listing, and until then nothing is enqueued.
C23_FailedPrimingStaysPriming ==
    /\ [][ (isFirstRun /\ fpc = "fetch" /\ fpc' = "wait") =>
              (isFirstRun' /\ processedCalls' = processedCalls
                 /\ enqLog' = << >>) ]_vars
    /\ [][ (isFirstRun /\ ~isFirstRun') =>
              /\ fpc = "range"
              /\ idx = Len(listing) + 1
              /\ Elems(listing) = primed
              /\ processedCalls = primed
              /\ enqLog = << >> ]_vars
    /\ []( enqLog # << >> => ~isFirstRun )

\* A cycle has just failed in priming mode: the Fetcher waits for the next
\* tick, still priming, with an empty ledger.
C23_Witness ==
    /\ isFirstRun
    /\ lastCycle = "failed"
    /\ fpc = "wait"
    /\ processedCalls = {}

\* C24: while the shutdown signal is not set, every call in the queue is
\* in time taken out of it (played, unless the Fetcher evicts it), and a
\* Fetcher that is busy with a cycle comes back to wait for the next tick,
\* so that cycles go on for ever.
C24_CallsPlayedAndCyclesGoOn ==
    /\ \A c \in Ids :
          (c \in Elems(queue)) ~>
              (c \in Elems(playLog) \/ c \in Elems(evicted) \/ done)
    /\ (mpc = "running" /\ fpc # "wait") ~> (fpc = "wait" \/ done)

\* C25: every call put on the queue is in exactly one place: still in the
\* queue, taken by the Player, or evicted by the Fetcher; no call is taken
\* twice, none is both taken and evicted, and every step that takes a call
\* out of the buffer records its head in exactly one of the two logs.
C25_RemovedOnceAccounted ==
    /\ []( /\ NoDup(playLog)
           /\ NoDup(evicted)
           /\ Elems(playLog) \cap Elems(evicted) = {}
           /\ Elems(queue) \cap (Elems(playLog) \cup Elems(evicted)) = {}
           /\ Elems(enqLog)
                 = Elems(queue) \cup Elems(playLog) \cup Elems(evicted)
           /\ Len(enqLog) = Len(queue) + Len(playLog) + Len(evicted) )
    /\ [][ Len(queue') < Len(queue) =>
              /\ queue' = Tail(queue)
              /\ \/ playLog' = Append(playLog, Head(queue)) /\ evicted' = evicted
                 \/ evicted' = Append(evicted, Head(queue)) /\ playLog' = playLog ]_vars

\* One call was taken by the Player and another was evicted by the
\* Fetcher, while a third waits in the queue.
C25_Witness ==
    /\ playLog # << >>
    /\ evicted # << >>
    /\ queue # << >>

====
